---- MODULE Spec2Model ----
(***************************************************************************)
(* Model of the LaTeX publisher's line-stream driver,                      *)
(* LaTeXPublisher._format_latex_text (doorstop/core/publishers/latex.py).  *)
(*                                                                         *)
(* A text line is a sequence of tokens (strings); the empty line "" is the *)
(* empty sequence.  An output line is a sequence of tokens as well.  The   *)
(* regular expressions of the source are evaluated on tokens.  The loop    *)
(* index i is 1-based here (Python's i + 1).                                *)
(***************************************************************************)
EXTENDS Integers, Sequences, FiniteSets, TLC

\* ------------------------------------------------------------------ bounds
\* Longest text body (number of lines) of a call under Spec.
MaxLines == 3
\* Longest text body of each call under SpecCalls.
MaxCallLines == 2
\* Number of _format_latex_text calls on one publisher under SpecCalls.
MaxCalls == 2

\* ------------------------------------------------------------------ tokens
\* The backquote cannot occur in a string of the module: ' stands for it.
FENCE == "'''"
BACKTICK == "'"
PLANTUML == "plantuml "
TITLE == "title=\""
QUOTE == "\""
ENDUML == "@enduml"
MATH == "$$"
PIPE == "|"
MARKER == "- "
SPACE == " "
UNDERSCORE == "_"
CARET == "^"
BACKSLASH == "\\"

\* Output-only tokens (LaTeX macros written by the publisher).
HARD_BREAK == "\\\\"
HYPERREF == "\\hyperref[fig:plant"
BEGIN_PLANTUML == "\\begin{plantuml}{"
END_PLANTUML == "\\end{plantuml}"
PROCESS == "\\process{"
TEXTWIDTH == "}{0.8\\textwidth}{"
BEGIN_LSTLISTING == "\\begin{lstlisting}"
BEGIN_LSTLISTING_LANG == "\\begin{lstlisting}[language="
END_LSTLISTING == "\\end{lstlisting}"
LSTINLINE == "\\lstinline"
END_LONGTABLE == "\\end{longtable}"
HLINE == "\\hline"
BEGIN_LONGTABLE == "\\begin{longtable}{"
BEGIN_ITEMIZE == "\\begin{itemizeDeep}"
END_ITEMIZE == "\\end{itemizeDeep}"
ITEM == "\\item "
NEWLINE == "\n"

\* The tokens that contain a backslash character.
BackslashTokens ==
    { BACKSLASH, HARD_BREAK, HYPERREF, BEGIN_PLANTUML, END_PLANTUML, PROCESS,
      TEXTWIDTH, BEGIN_LSTLISTING, BEGIN_LSTLISTING_LANG, END_LSTLISTING,
      LSTINLINE, END_LONGTABLE, HLINE, BEGIN_LONGTABLE, BEGIN_ITEMIZE,
      END_ITEMIZE, ITEM }

\* ------------------------------------------------------------- input lines
EmptyLine == << >>
PlainLine == << "x" >>
UnderscoreLine == << "a", UNDERSCORE, "b" >>
FenceLine == << FENCE >>
FenceLangLine == << FENCE, "py" >>
InlineCodeLine == << BACKTICK, "x", BACKTICK >>
PlantumlLine == << FENCE, PLANTUML, TITLE, "Foo", SPACE, "Bar", QUOTE >>
PlantumlLine2 == << PLANTUML, TITLE, "Baz", QUOTE >>
PlantumlNoTitleLine == << PLANTUML, "x" >>
EndumlLine == << ENDUML >>
MathOneLine == << MATH, "x" >>
MathTwoLine == << "a", MATH, "x", UNDERSCORE, MATH, "b" >>
MathThreeLine == << MATH, "a", MATH, "b", MATH, "c" >>
TableLine == << PIPE, "A", PIPE, "B", PIPE >>
SeparatorLine == << PIPE, "-", PIPE, "-", PIPE >>
ListLine == << MARKER, "a" >>

Lines ==
    { EmptyLine, PlainLine, UnderscoreLine, FenceLine, FenceLangLine,
      InlineCodeLine, PlantumlLine, PlantumlLine2, PlantumlNoTitleLine,
      EndumlLine, MathOneLine, MathTwoLine, MathThreeLine, TableLine,
      SeparatorLine, ListLine }

\* The lines of the text bodies under SpecCalls.
CallLines ==
    { EmptyLine, PlainLine, FenceLine, PlantumlLine, PlantumlNoTitleLine,
      EndumlLine, MathOneLine, MathThreeLine, TableLine, ListLine }

TextsOver(L, n) == UNION { [1..k -> L] : k \in 0..n }
Texts == TextsOver(Lines, MaxLines)
CallTexts == TextsOver(CallLines, MaxCallLines)

\* ----------------------------------------------------------- token helpers
Has(line, tok) == \E k \in 1..Len(line) : line[k] = tok

First(line, tok) ==
    CHOOSE k \in 1..Len(line) :
        line[k] = tok /\ \A j \in 1..(k - 1) : line[j] # tok

Last(line, tok) ==
    CHOOSE k \in 1..Len(line) :
        line[k] = tok /\ \A j \in (k + 1)..Len(line) : line[j] # tok

\* re.split(d, line): the segments of line between the delimiters d.
RECURSIVE Split(_, _)
Split(line, d) ==
    IF ~Has(line, d) THEN << line >>
    ELSE LET k == First(line, d)
         IN  << SubSeq(line, 1, k - 1) >>
                 \o Split(SubSeq(line, k + 1, Len(line)), d)

Replace(line, from, to) ==
    [k \in 1..Len(line) |-> IF line[k] = from THEN to ELSE line[k]]

\* ------------------------------------------------ regular expressions (src)
\* re.findall("^`*plantuml\\s", line)
IsPlantumlOpen(line) ==
    \E k \in 1..Len(line) :
        /\ line[k] = PLANTUML
        /\ \A j \in 1..(k - 1) : line[j] \in { FENCE, BACKTICK }

\* re.search('title="(.*)"', line) matches
HasTitle(line) ==
    Has(line, TITLE) /\ Has(line, QUOTE)
        /\ Last(line, QUOTE) > First(line, TITLE)

\* plantuml_title.groups(0)[0]: the greedy group of title="(.*)"
TitleOf(line) ==
    SubSeq(line, First(line, TITLE) + 1, Last(line, QUOTE) - 1)

\* re.sub("\\s", "-", plantuml_name)
Slug(name) == Replace(name, SPACE, "-")

\* re.findall("@enduml", line)
HasEnduml(line) == Has(line, ENDUML)

\* re.findall("```", line)
HasFence(line) == Has(line, FENCE)

\* re.search("```(.*)", line).groups(0)[0]
Language(line) == SubSeq(line, First(line, FENCE) + 1, Len(line))

\* re.search("\\\\", line)
HasBackslash(line) == \E k \in 1..Len(line) : line[k] \in BackslashTokens

\* ------------------------------------------------------ output lines (src)
\* A forward reference labelled with the counter before its increment.
HyperrefLineStale(count, name) ==
    << HYPERREF, ToString(count - 1), "]{" >> \o name \o << "}" >>

HyperrefLine(count, name) ==
    << HYPERREF, ToString(count), "]{" >> \o name \o << "}" >>

BeginPlantumlLine(file) == << BEGIN_PLANTUML >> \o file \o << "}" >>

ProcessLine(file, name, count) ==
    << PROCESS >> \o file \o << TEXTWIDTH >> \o name
        \o << "}", "{", ToString(count), "}" >>

EofProcessLine(file, name) ==
    << PROCESS >> \o file \o << TEXTWIDTH >> \o name \o << "}" >>

BeginLstlistingLine(language) ==
    IF language # << >>
    THEN << BEGIN_LSTLISTING_LANG >> \o language \o << "]" >>
    ELSE << BEGIN_LSTLISTING >>

\* ----------------------------------------------------- inline code (src)
TEMPINLINE == "##!!TEMPINLINE!!##"

\* re.sub("\\\\`", "##!!TEMPINLINE!!##", line)
RECURSIVE EscapeInline(_)
EscapeInline(line) ==
    IF line = << >> THEN << >>
    ELSE IF Len(line) >= 2 /\ line[1] = BACKSLASH /\ line[2] = BACKTICK
         THEN << TEMPINLINE >> \o EscapeInline(SubSeq(line, 3, Len(line)))
         ELSE << line[1] >> \o EscapeInline(Tail(line))

\* re.sub("`(.+?)`", "\\\\lstinline`\\1`", line)
RECURSIVE MarkInline(_)
MarkInline(line) ==
    IF line = << >> THEN << >>
    ELSE IF line[1] = BACKTICK /\ \E m \in 3..Len(line) : line[m] = BACKTICK
         THEN LET m == CHOOSE m \in 3..Len(line) :
                           line[m] = BACKTICK
                               /\ \A j \in 3..(m - 1) : line[j] # BACKTICK
              IN  << LSTINLINE >> \o SubSeq(line, 1, m)
                      \o MarkInline(SubSeq(line, m + 1, Len(line)))
         ELSE << line[1] >> \o MarkInline(Tail(line))

\* re.sub("##!!TEMPINLINE!!##", "\\\\`{}", line)
RECURSIVE RestoreInline(_)
RestoreInline(line) ==
    IF line = << >> THEN << >>
    ELSE (IF line[1] = TEMPINLINE
          THEN << BACKSLASH, BACKTICK, "{}" >>
          ELSE << line[1] >>) \o RestoreInline(Tail(line))

InlineCode(line) == RestoreInline(MarkInline(EscapeInline(line)))

\* ------------------------------------------- helpers outside src (from spec)
\* _latex_convert: escapes the reserved characters of a line.
Reserved == { UNDERSCORE, CARET }

RECURSIVE latex_convert(_)
latex_convert(line) ==
    IF line = << >> THEN << >>
    ELSE (IF line[1] \in Reserved
          THEN << BACKSLASH, line[1] >>
          ELSE << line[1] >>) \o latex_convert(Tail(line))

\* _fix_table_line: a table row with its outer pipes dropped, the inner ones
\* made column separators, and the row ended.
FixTableLine(line, end_pipes) ==
    LET lo == IF end_pipes /\ Len(line) > 0 /\ line[1] = PIPE THEN 2 ELSE 1
        hi == IF end_pipes /\ Len(line) > 0 /\ line[Len(line)] = PIPE
              THEN Len(line) - 1 ELSE Len(line)
    IN  Replace(SubSeq(line, lo, hi), PIPE, "&") \o << HARD_BREAK >>

\* _check_for_new_table: a line with a pipe outside a table opens one: the
\* environment-open line is appended to the block and the line becomes the
\* header row.
CheckForNewTable(line, block, table_found, header_done, end_pipes) ==
    LET ep == line[Len(line)] = PIPE
        cells == Len(Split(line, PIPE)) - (IF ep THEN 2 ELSE 0)
    IN  [ table_found |-> TRUE,
          header_done |-> header_done,
          line |-> FixTableLine(line, ep),
          end_pipes |-> ep,
          block |-> Append(block,
                      << BEGIN_LONGTABLE >> \o [k \in 1..cells |-> "l"]
                          \o << "}" >>) ]

\* BasePublisher.process_lists: one nesting level of unordered list.  depth is
\* the publisher's list context; the result carries the new depth.
IsListItem(line) == Len(line) > 0 /\ line[1] = MARKER

ProcessLists(line, next_line, depth) ==
    LET inside == IsListItem(line) \/ depth > 0
        closes == inside /\ next_line = << >>
    IN  [ no_paragraph |-> inside /\ ~closes,
          processed_block |->
              IF IsListItem(line) /\ depth = 0 THEN << BEGIN_ITEMIZE >>
              ELSE << >>,
          line |->
              (IF IsListItem(line) THEN << ITEM >> \o Tail(line) ELSE line)
                  \o (IF closes THEN << NEWLINE, END_ITEMIZE >> ELSE << >>),
          depth |-> IF inside /\ ~closes THEN 1 ELSE 0 ]

\* ------------------------------------------------------------ the loop body
(* A frame s holds the locals of one _format_latex_text call: text, i, block, *)
(* line, the keys of environment_data (table_found, code_found,              *)
(* plantuml_found), header_done, math_found, plantuml_file, plantuml_name,   *)
(* plantuml_count, end_pipes, no_paragraph; depth is the list context of     *)
(* process_lists; path is the way the current iteration left the loop body.  *)

\* An end-of-file check that leaves an open diagram open.
CheckForEofNoDiagram(s) ==
    IF s.i # Len(s.text) THEN s
    ELSE LET b1 == IF s.code_found
                   THEN Append(s.block, << END_LSTLISTING >>)
                   ELSE s.block
             b3 == IF s.table_found
                   THEN Append(b1, << END_LONGTABLE >>)
                   ELSE b1
         IN  [s EXCEPT !.block = b3]

\* _check_for_eof
CheckForEof(s) ==
    IF s.i # Len(s.text) THEN s
    ELSE LET b1 == IF s.code_found
                   THEN Append(s.block, << END_LSTLISTING >>)
                   ELSE s.block
             b2 == IF s.plantuml_found
                   THEN b1 \o << << END_PLANTUML >>,
                                 EofProcessLine(s.plantuml_file,
                                                s.plantuml_name) >>
                   ELSE b1
             b3 == IF s.table_found
                   THEN Append(b2, << END_LONGTABLE >>)
                   ELSE b2
         IN  [s EXCEPT !.block = b3]

\* title is required: the opening line raises without it
TitleMissing(line) == ~HasTitle(line)

\* An opening marker without a title that is taken for an ordinary line.
PlantumlOpenLenient(s) ==
    IF ~IsPlantumlOpen(s.line) \/ TitleMissing(s.line) THEN s
    ELSE LET count == s.plantuml_count + 1
             name == TitleOf(s.line)
             file == Slug(name)
         IN  [s EXCEPT !.plantuml_count = count,
                       !.plantuml_name = name,
                       !.plantuml_file = file,
                       !.block = Append(@, HyperrefLine(count, name)),
                       !.line = BeginPlantumlLine(file),
                       !.plantuml_found = TRUE]

\* "Fix plantuml": the opening marker
PlantumlOpen(s) ==
    IF ~IsPlantumlOpen(s.line) THEN s
    ELSE LET count == s.plantuml_count + 1
         IN  IF TitleMissing(s.line)
             THEN [s EXCEPT !.plantuml_count = count,
                            !.path = "missing_title"]
             ELSE LET name == TitleOf(s.line)
                      file == Slug(name)
                  IN  [s EXCEPT !.plantuml_count = count,
                                !.plantuml_name = name,
                                !.plantuml_file = file,
                                !.block = Append(@, HyperrefLine(count, name)),
                                !.line = BeginPlantumlLine(file),
                                !.plantuml_found = TRUE]

\* "Fix plantuml": the closing marker
PlantumlClose(s) ==
    IF ~HasEnduml(s.line) THEN s
    ELSE [s EXCEPT !.block = @ \o << s.line, << END_PLANTUML >> >>,
                   !.line = ProcessLine(s.plantuml_file, s.plantuml_name,
                                        s.plantuml_count),
                   !.plantuml_found = FALSE]

\* "Skip the rest since we are in a plantuml block!"
PlantumlSkip(s) ==
    IF s.plantuml_found
    THEN [CheckForEof([s EXCEPT !.block = Append(@, s.line)])
             EXCEPT !.path = "diagram"]
    ELSE s

PlantumlStage(s) ==
    LET s0 == IF s.plantuml_found THEN [s EXCEPT !.no_paragraph = TRUE] ELSE s
        s1 == PlantumlOpen(s0)
    IN  IF s1.path # "" THEN s1 ELSE PlantumlSkip(PlantumlClose(s1))

\* A fence after @enduml that is ignored only outside a code span.
FenceSkippedOutsideCode(s) ==
    HasFence(s.line) /\ s.i > 1 /\ HasEnduml(s.text[s.i - 1])
        /\ ~s.code_found

\* "Check previous line of @enduml."
FenceSkipped(s) ==
    HasFence(s.line) /\ s.i > 1 /\ HasEnduml(s.text[s.i - 1])

\* "Fix code blocks": a fence closes the open span or opens one
CodeFence(s) ==
    IF ~HasFence(s.line) THEN s
    ELSE IF s.code_found
         THEN [s EXCEPT !.line = << END_LSTLISTING >>, !.code_found = FALSE]
         ELSE [s EXCEPT !.line = BeginLstlistingLine(Language(s.line)),
                        !.code_found = TRUE]

\* A code stage without its "continue".
CodeSkipFallsThrough(s) == s

\* "Skip the rest since we are in a code block!"
CodeSkip(s) ==
    IF s.code_found
    THEN [CheckForEof([s EXCEPT !.block = Append(@, s.line)])
             EXCEPT !.path = "code"]
    ELSE s

CodeStage(s) ==
    LET s0 == IF s.code_found THEN [s EXCEPT !.no_paragraph = TRUE] ELSE s
    IN  IF FenceSkipped(s0) THEN [s0 EXCEPT !.path = "skip"]
        ELSE CodeSkip(CodeFence(s0))

\* "Replace ` for inline code"
\* An inline stage that already converts the line.
InlineStageConverting(s) ==
    [s EXCEPT !.line = latex_convert(InlineCode(s.line))]

InlineStage(s) == [s EXCEPT !.line = InlineCode(s.line)]

\* Off by one either way.
MathRaisesAboveThree(math_match) == Len(math_match) > 4

MathRaisesAtTwo(math_match) == Len(math_match) > 2

\* more than two $$ on one row cannot be handled
MathRaises(math_match) == Len(math_match) > 3

\* A math stage whose lone $$ always opens and never closes.
MathConvertOpenOnly(s) ==
    LET math_match == Split(s.line, MATH)
    IN  IF Len(math_match) = 2
        THEN [s EXCEPT !.math_found = TRUE,
                       !.line = latex_convert(math_match[1]) \o << "$" >>
                                    \o math_match[2]]
        ELSE IF MathRaises(math_match)
        THEN [s EXCEPT !.path = "multiple_math"]
        ELSE [s EXCEPT !.line = latex_convert(s.line)]

\* "Fix $ and MATH."
MathConvert(s) ==
    LET math_match == Split(s.line, MATH)
    IN  IF Len(math_match) > 1
        THEN IF s.math_found /\ Len(math_match) = 2
             THEN [s EXCEPT !.math_found = FALSE,
                            !.line = math_match[1] \o << "$" >>
                                         \o latex_convert(math_match[2])]
             ELSE IF Len(math_match) = 2
             THEN [s EXCEPT !.math_found = TRUE,
                            !.line = latex_convert(math_match[1]) \o << "$" >>
                                         \o math_match[2]]
             ELSE IF ~MathRaises(math_match)
             THEN [s EXCEPT !.line = latex_convert(math_match[1]) \o << "$" >>
                                         \o math_match[2] \o << "$" >>
                                         \o latex_convert(math_match[3])]
             ELSE [s EXCEPT !.path = "multiple_math"]
        ELSE [s EXCEPT !.line = latex_convert(s.line)]

\* A math line added without the hard line-break.
MathSkipNoBreak(s) ==
    IF s.path = "" /\ s.math_found
    THEN [s EXCEPT !.block = Append(@, s.line), !.path = "math"]
    ELSE s

\* "Skip all other changes if in MATH!"
MathSkip(s) ==
    IF s.path = "" /\ s.math_found
    THEN [s EXCEPT !.block = Append(@, s.line \o << HARD_BREAK >>),
                   !.line = s.line \o << HARD_BREAK >>,
                   !.path = "math"]
    ELSE s

MathStage(s) == MathSkip(MathConvert(s))

\* "Fix lists."
ListStage(s) ==
    LET next_line == IF s.i = Len(s.text) THEN << >> ELSE s.text[s.i + 1]
        r == ProcessLists(s.line, next_line, s.depth)
    IN  [s EXCEPT !.no_paragraph = r.no_paragraph,
                  !.line = r.line,
                  !.depth = r.depth,
                  !.block = IF r.processed_block # << >>
                            THEN Append(@, r.processed_block) ELSE @]

\* A table stage that forgets the divider is written.
TypesetLatexTableRepeat(line, block, table_found, header_done, end_pipes) ==
    IF ~table_found
    THEN CheckForNewTable(line, block, table_found, header_done, end_pipes)
    ELSE [ table_found |-> table_found, header_done |-> FALSE,
           line |-> << HLINE >>, end_pipes |-> end_pipes, block |-> block ]

\* _typeset_latex_table
TypesetLatexTable(line, block, table_found, header_done, end_pipes) ==
    IF ~table_found
    THEN CheckForNewTable(line, block, table_found, header_done, end_pipes)
    ELSE IF ~header_done
         THEN [ table_found |-> table_found, header_done |-> TRUE,
                line |-> << HLINE >>, end_pipes |-> end_pipes,
                block |-> block ]
         ELSE [ table_found |-> table_found, header_done |-> header_done,
                line |-> FixTableLine(line, end_pipes),
                end_pipes |-> end_pipes, block |-> block ]

\* A table end written whether or not a table is open.
TableCloseAlways(s) ==
    [s EXCEPT !.block = Append(@, << END_LONGTABLE >>),
              !.table_found = FALSE,
              !.header_done = FALSE]

\* a line without a pipe ends the table
TableClose(s) ==
    [s EXCEPT !.block = IF s.table_found
                        THEN Append(@, << END_LONGTABLE >>) ELSE @,
              !.table_found = FALSE,
              !.header_done = FALSE]

\* "Fix tables."
TableStage(s) ==
    IF Has(s.line, PIPE)
    THEN LET r == TypesetLatexTable(s.line, s.block, s.table_found,
                                    s.header_done, s.end_pipes)
         IN  [s EXCEPT !.table_found = r.table_found,
                       !.header_done = r.header_done,
                       !.line = r.line,
                       !.end_pipes = r.end_pipes,
                       !.block = r.block]
    ELSE TableClose(s)

\* A look-ahead that does not test the line for a backslash.
ParagraphStageAnyLine(s) ==
    IF s.i < Len(s.text) /\ s.text[s.i + 1] = << >> /\ ~s.no_paragraph
    THEN [s EXCEPT !.line = @ \o << HARD_BREAK >>]
    ELSE s

\* "Look ahead for empty line and add paragraph."
ParagraphStage(s) ==
    IF s.i < Len(s.text) /\ s.text[s.i + 1] = << >>
           /\ ~HasBackslash(s.line) /\ ~s.no_paragraph
    THEN [s EXCEPT !.line = @ \o << HARD_BREAK >>]
    ELSE s

\* "All done. Add the line."
AddLine(s) ==
    [CheckForEof([s EXCEPT !.block = Append(@, s.line)])
        EXCEPT !.path = "normal"]

\* The stages before the math stage: diagram, code span, inline code.
UpToMath(s) ==
    LET s1 == PlantumlStage([s EXCEPT !.line = s.text[s.i], !.path = ""])
    IN  IF s1.path # "" THEN s1
        ELSE LET s2 == CodeStage(s1)
             IN  IF s2.path # "" THEN s2 ELSE InlineStage(s2)

\* One iteration of "for i, line in enumerate(text)".
LoopBody(s) ==
    LET s2 == UpToMath(s)
    IN  IF s2.path # "" THEN s2
        ELSE LET s3 == MathStage(s2)
             IN  IF s3.path # "" THEN s3
                 ELSE AddLine(ParagraphStage(TableStage(ListStage(s3))))

\* ------------------------------------------------------------ state machine
VARIABLES
    pc,             \* "loop", "returned", "raised", or "idle" between calls
    text,           \* the argument of the call
    i,              \* loop index (1-based)
    block,          \* the output block being built
    table_found,    \* environment_data["table_found"]
    code_found,     \* environment_data["code_found"]
    plantuml_found, \* environment_data["plantuml_found"]
    header_done,
    math_found,
    plantuml_file,
    plantuml_name,
    plantuml_count,
    end_pipes,
    no_paragraph,
    depth,          \* list context of process_lists
    path,           \* how the last iteration left the loop body
    returned,       \* the block handed to the caller by "return block"
    error,          \* the DoorstopError raised, "" when none
    calls,          \* number of calls made on this publisher
    last_frame,     \* locals the previous call ended with (dead after it)
    published,      \* the lines _format_href_text yields to lines()
    uid,            \* the argument of clean_link
    cleaned,        \* the value clean_link returned last
    passes,         \* number of clean_link applications made
    items,          \* the items iter_items(obj) gives to both publishers
    prefix,         \* item.document.prefix
    lines_pc,       \* LaTeXPublisher.lines: "loop" or "done"
    item_count,     \* locals of LaTeXPublisher.lines
    prev_category,
    prev_subcategory,
    yielded,        \* what lines has yielded, one sequence for each item
    md_item_count,  \* locals of MarkdownPublisher._lines_markdown
    md_prev_category,
    md_prev_subcategory,
    md_yielded,     \* what _lines_markdown has yielded, likewise
    publish_child_links,    \* settings.PUBLISH_CHILD_LINKS
    label,          \* locals of _lines_markdown, kept from item to item
    links,
    bound,          \* label and links have been assigned
    md_error        \* the error that ended _lines_markdown, "" when none

locals ==
    << text, i, block, table_found, code_found, plantuml_found, header_done,
       math_found, plantuml_file, plantuml_name, plantuml_count, end_pipes,
       no_paragraph, depth, path >>

\* the state outside _format_latex_text and its calls
\* the state of the two item loops
itemvars ==
    << items, prefix, lines_pc, item_count, prev_category, prev_subcategory,
       yielded, md_item_count, md_prev_category, md_prev_subcategory,
       md_yielded, publish_child_links, label, links, bound, md_error >>

others == << published, uid, cleaned, passes, itemvars >>

\* no document is being published
ItemsIdle ==
    /\ items = << >>
    /\ prefix = ""
    /\ lines_pc = "done"
    /\ item_count = 0
    /\ prev_category = << >>
    /\ prev_subcategory = << >>
    /\ yielded = << >>
    /\ md_item_count = 0
    /\ md_prev_category = << >>
    /\ md_prev_subcategory = << >>
    /\ md_yielded = << >>
    /\ publish_child_links = TRUE
    /\ label = ""
    /\ links = << >>
    /\ bound = FALSE
    /\ md_error = ""

vars == << pc, locals, returned, error, calls, last_frame, others >>

Frame ==
    [ text |-> text, i |-> i, block |-> block, line |-> << >>,
      table_found |-> table_found, code_found |-> code_found,
      plantuml_found |-> plantuml_found, header_done |-> header_done,
      math_found |-> math_found, plantuml_file |-> plantuml_file,
      plantuml_name |-> plantuml_name, plantuml_count |-> plantuml_count,
      end_pipes |-> end_pipes, no_paragraph |-> no_paragraph,
      depth |-> depth, path |-> path ]

SetFrame(s) ==
    /\ text' = s.text
    /\ i' = s.i
    /\ block' = s.block
    /\ table_found' = s.table_found
    /\ code_found' = s.code_found
    /\ plantuml_found' = s.plantuml_found
    /\ header_done' = s.header_done
    /\ math_found' = s.math_found
    /\ plantuml_file' = s.plantuml_file
    /\ plantuml_name' = s.plantuml_name
    /\ plantuml_count' = s.plantuml_count
    /\ end_pipes' = s.end_pipes
    /\ no_paragraph' = s.no_paragraph
    /\ depth' = s.depth
    /\ path' = s.path

\* The locals of a call on t whose diagram counter starts at count and whose
\* list context starts at d.
NewFrame(t, count, d) ==
    [ text |-> t, i |-> 1, block |-> << >>, line |-> << >>,
      table_found |-> FALSE, code_found |-> FALSE, plantuml_found |-> FALSE,
      header_done |-> FALSE, math_found |-> FALSE, plantuml_file |-> << >>,
      plantuml_name |-> << >>, plantuml_count |-> count, end_pipes |-> FALSE,
      no_paragraph |-> FALSE, depth |-> d, path |-> "" ]

\* The list context is reset at the start of each text body (from the spec).
ListReset(old) == 0

\* A counter that is not reset by the call but lives on beyond it.
FormatInitGlobalCount(old, t) ==
    NewFrame(t, old.plantuml_count, ListReset(old.depth))

\* The initialisation of _format_latex_text(text): every local is created
\* anew, whatever frame old an earlier call left behind.
FormatInit(old, t) == NewFrame(t, 0, ListReset(old.depth))

NoFrame == [ plantuml_count |-> 0, depth |-> 0, open |-> { } ]

\* The spans a frame leaves open.
OpenSpans(s) ==
    { k \in { "code", "diagram", "table", "math", "list" } :
        \/ k = "code" /\ s.code_found
        \/ k = "diagram" /\ s.plantuml_found
        \/ k = "table" /\ s.table_found
        \/ k = "math" /\ s.math_found
        \/ k = "list" /\ s.depth > 0 }

InitWith(T) ==
    /\ pc = "loop"
    /\ \E t \in T :
         LET s == FormatInit(NoFrame, t)
         IN  /\ text = s.text
             /\ i = s.i
             /\ block = s.block
             /\ table_found = s.table_found
             /\ code_found = s.code_found
             /\ plantuml_found = s.plantuml_found
             /\ header_done = s.header_done
             /\ math_found = s.math_found
             /\ plantuml_file = s.plantuml_file
             /\ plantuml_name = s.plantuml_name
             /\ plantuml_count = s.plantuml_count
             /\ end_pipes = s.end_pipes
             /\ no_paragraph = s.no_paragraph
             /\ depth = s.depth
             /\ path = s.path
    /\ returned = << >>
    /\ error = ""
    /\ calls = 1
    /\ last_frame = NoFrame
    /\ published = << >>
    /\ uid = << >>
    /\ cleaned = << >>
    /\ passes = 0
    /\ ItemsIdle

Init == InitWith(Texts)

\* An iteration that leaves the loop body by way p and goes on to the next.
Iterate(p) ==
    /\ pc = "loop"
    /\ i <= Len(text)
    /\ LET s == LoopBody(Frame)
       IN  /\ s.path = p
           /\ SetFrame([s EXCEPT !.i = s.i + 1])
    /\ UNCHANGED << pc, returned, error, calls, last_frame, others >>

\* An iteration that raises DoorstopError: the call ends without a result.
Raise(p) ==
    /\ pc = "loop"
    /\ i <= Len(text)
    /\ LET s == LoopBody(Frame)
       IN  /\ s.path = p
           /\ SetFrame(s)
    /\ pc' = "raised"
    /\ error' = p
    /\ UNCHANGED << returned, calls, last_frame, others >>

\* the line is buffered in the open diagram ("continue")
DiagramLine ==
    /\ pc = "loop"
    /\ Iterate("diagram")

\* the fence after @enduml is ignored ("continue")
SkippedFence ==
    /\ pc = "loop"
    /\ Iterate("skip")

\* the line is buffered in the open code span ("continue")
CodeLine ==
    /\ pc = "loop"
    /\ Iterate("code")

\* the line is inside an open math span ("continue")
MathLine ==
    /\ pc = "loop"
    /\ Iterate("math")

\* the line runs through every stage and is added
NormalLine ==
    /\ pc = "loop"
    /\ Iterate("normal")

\* "'title' is required for plantUML processing in LaTeX."
RaiseMissingTitle ==
    /\ pc = "loop"
    /\ Raise("missing_title")

\* "Cannot handle multiple math environments on one row."
RaiseMultipleMath ==
    /\ pc = "loop"
    /\ Raise("multiple_math")

\* "return block"
Return ==
    /\ pc = "loop"
    /\ i > Len(text)
    /\ pc' = "returned"
    /\ returned' = block
    /\ UNCHANGED << locals, error, calls, last_frame, others >>

Next ==
    \/ DiagramLine
    \/ SkippedFence
    \/ CodeLine
    \/ MathLine
    \/ NormalLine
    \/ RaiseMissingTitle
    \/ RaiseMultipleMath
    \/ Return

Spec == Init /\ [][Next]_vars

\* ------------------------------------------------- several calls (SpecCalls)
\* The caller takes the result (or the error) of the call; the frame dies.
Yield ==
    /\ pc \in { "returned", "raised" }
    /\ pc' = "idle"
    /\ last_frame' = [ plantuml_count |-> plantuml_count, depth |-> depth,
                       open |-> OpenSpans(Frame) ]
    /\ SetFrame(NewFrame(<< >>, 0, 0))
    /\ returned' = << >>
    /\ error' = ""
    /\ UNCHANGED << calls, others >>

\* The next _format_latex_text call on the same publisher.
Call ==
    /\ pc = "idle"
    /\ calls < MaxCalls
    /\ \E t \in CallTexts : SetFrame(FormatInit(last_frame, t))
    /\ pc' = "loop"
    /\ calls' = calls + 1
    /\ UNCHANGED << returned, error, last_frame, others >>

InitCalls == InitWith(CallTexts)

NextCalls == Next \/ Yield \/ Call

SpecCalls == InitCalls /\ [][NextCalls]_vars

\* ------------------------------------------------ the call as a function
Errors == { "missing_title", "multiple_math" }

RECURSIVE RunFrom(_)
RunFrom(s) ==
    IF s.i > Len(s.text) THEN s
    ELSE LET n == LoopBody(s)
         IN  IF n.path \in Errors THEN n
             ELSE RunFrom([n EXCEPT !.i = n.i + 1])

\* _format_latex_text(t) on a publisher that made no call before: the block
\* it returns, or the error it raises.
FormatLatexText(t) ==
    LET s == RunFrom(FormatInit(NoFrame, t))
    IN  IF s.path \in Errors
        THEN [ error |-> s.path, returned |-> << >> ]
        ELSE [ error |-> "", returned |-> s.block ]

\* ------------------------------------------- _format_href_text (SpecLines)
LBRACKET == "["
LINK == "]("
RPAREN == ")"
BR == "<br>"
PAR == "\\par"
PAR_SPACE == "\\par "
HREF == "\\href"

\* str.replace(pat, to): every occurrence, left to right, without overlap
RECURSIVE ReplaceAll(_, _, _)
ReplaceAll(line, pat, to) ==
    IF Len(line) < Len(pat) \/ line = << >> THEN line
    ELSE IF SubSeq(line, 1, Len(pat)) = pat
         THEN to \o ReplaceAll(SubSeq(line, Len(pat) + 1, Len(line)), pat, to)
         ELSE << line[1] >> \o ReplaceAll(Tail(line), pat, to)

\* line.replace(c, "\\" + c)
Escape(line, c) == ReplaceAll(line, << c >>, << BACKSLASH, c >>)

\* The subscripts of the link branch that raise IndexError: no "[" in the
\* line, no "](" after the first "[", or no ")" after that "](".
HrefRaises(line) ==
    /\ Has(line, LINK)
    /\ LET split_line_text == Split(line, LBRACKET)
       IN  \/ Len(split_line_text) < 2
           \/ LET split_link_prefix == Split(split_line_text[2], LINK)
              IN  \/ Len(split_link_prefix) < 2
                  \/ Len(Split(split_link_prefix[2], RPAREN)) < 2

\* one line of the loop of _format_href_text
FormatHrefLine(line) ==
    IF Has(line, LINK)
    THEN LET split_line_text == Split(line, LBRACKET)
             pre == Escape(split_line_text[1], UNDERSCORE)
             remainder == split_line_text[2]
             split_link_prefix == Split(remainder, LINK)
             split_link == Split(split_link_prefix[2], RPAREN)
             url_prefix ==
                 Escape(<< "{" >> \o split_link_prefix[1] \o << "}" >>,
                        UNDERSCORE)
             link == << "{" >> \o split_link[1] \o << "}" >>
             rest_text == Escape(split_link[2], UNDERSCORE)
         IN  pre \o << HREF >> \o link \o url_prefix \o rest_text
    ELSE IF Has(line, BR)
    THEN LET output_line ==
                 ReplaceAll(
                     ReplaceAll(
                         ReplaceAll(line, << BR, SPACE, BR >>,
                                    << PAR_SPACE >>),
                         << BR, BR >>, << PAR_SPACE >>),
                     << BR >>, << PAR >>)
         IN  Escape(Escape(output_line, CARET), UNDERSCORE)
    ELSE Escape(Escape(line, CARET), UNDERSCORE)

\* the lines the generator yields before it ends or raises
RECURSIVE FormatHrefText(_)
FormatHrefText(t) ==
    IF t = << >> \/ HrefRaises(t[1]) THEN << >>
    ELSE << FormatHrefLine(t[1]) >> \o FormatHrefText(Tail(t))

\* "yield from self._format_href_text(text_fixed)"
HrefText ==
    /\ pc = "returned"
    /\ published' = FormatHrefText(returned)
    /\ error' = IF \E k \in 1..Len(returned) : HrefRaises(returned[k])
                THEN "index_error" ELSE ""
    /\ pc' = "published"
    /\ UNCHANGED << locals, returned, calls, last_frame, uid, cleaned,
                    passes, itemvars >>

NextLines == Next \/ HrefText

SpecLines == Init /\ [][NextLines]_vars

\* ---------------------------------------- _format_href_text alone (SpecHref)
MaxHrefLines == 2

RBRACKET == "]"
LPAREN == "("

\* input lines of _format_href_text
LinkLine == << "p", UNDERSCORE, LBRACKET, "l", LINK, "t", RPAREN, "q" >>
LinkParenLine ==
    << LBRACKET, "l", LINK, "t", RPAREN, LPAREN, "q", RPAREN, "r" >>
LinkBracketLine ==
    << LBRACKET, "l", LINK, "t", RPAREN, LBRACKET, "q", RBRACKET >>
TwoLinksLine ==
    << LBRACKET, "l", LINK, "t", RPAREN, SPACE,
       LBRACKET, "m", LINK, "u", RPAREN >>
NoBracketLine == << "a", LINK, "b", RPAREN >>
BracketFirstLine ==
    << LBRACKET, "n", RBRACKET, SPACE, LBRACKET, "l", LINK, "t", RPAREN >>
NoCloseLine == << LBRACKET, "l", LINK, "t" >>
BrLine == << "a", BR, SPACE, BR, "b", CARET, BR >>

HrefLines ==
    { EmptyLine, PlainLine, UnderscoreLine, LinkLine, LinkParenLine,
      LinkBracketLine, TwoLinksLine, NoBracketLine, BracketFirstLine,
      NoCloseLine, BrLine }

HrefTexts == TextsOver(HrefLines, MaxHrefLines)

\* no _format_latex_text call is under way
FrameIdle ==
    LET s == NewFrame(<< >>, 0, 0)
    IN  /\ text = s.text
        /\ i = s.i
        /\ block = s.block
        /\ table_found = s.table_found
        /\ code_found = s.code_found
        /\ plantuml_found = s.plantuml_found
        /\ header_done = s.header_done
        /\ math_found = s.math_found
        /\ plantuml_file = s.plantuml_file
        /\ plantuml_name = s.plantuml_name
        /\ plantuml_count = s.plantuml_count
        /\ end_pipes = s.end_pipes
        /\ no_paragraph = s.no_paragraph
        /\ depth = s.depth
        /\ path = s.path

\* _format_href_text called on any text (returned holds its argument)
InitHref ==
    /\ pc = "returned"
    /\ FrameIdle
    /\ returned \in HrefTexts
    /\ error = ""
    /\ calls = 0
    /\ last_frame = NoFrame
    /\ published = << >>
    /\ uid = << >>
    /\ cleaned = << >>
    /\ passes = 0
    /\ ItemsIdle

NextHref == HrefText

SpecHref == InitHref /\ [][NextHref]_vars

\* ---------------------------------------------------- clean_link (SpecLink)
MaxUidLen == 3
MaxPasses == 2

HASH == "#"
HYPHEN == "-"
TAB == "\t"

\* characters of a UID: "#", white space, letters of both cases, a digit, a
\* hyphen and two special characters
Chars == { HASH, SPACE, TAB, "a", "B", "7", HYPHEN, UNDERSCORE }

Whitespace == { SPACE, TAB }

Uids == UNION { [1..n -> Chars] : n \in 0..MaxUidLen }

RECURSIVE DropWhile(_, _)
DropWhile(str, set) ==
    IF str # << >> /\ str[1] \in set THEN DropWhile(Tail(str), set) ELSE str

\* sub(r"^#*\s*", "", uid)
StripPrefix(str) == DropWhile(DropWhile(str, { HASH }), Whitespace)

\* uid.lower()
Lower(str) == [k \in 1..Len(str) |-> IF str[k] = "B" THEN "b" ELSE str[k]]

\* Spaces dropped instead of replaced.
ReplaceSpacesRemoved(str) == SelectSeq(str, LAMBDA c : c # SPACE)

\* uid.replace(" ", "-")
ReplaceSpaces(str) == Replace(str, SPACE, HYPHEN)

\* sub("[^a-z0-9-]", "", uid)
RECURSIVE RemoveSpecial(_)
RemoveSpecial(str) ==
    IF str = << >> THEN << >>
    ELSE (IF str[1] \in { "a", "b", "7", HYPHEN }
          THEN << str[1] >> ELSE << >>) \o RemoveSpecial(Tail(str))

clean_link(str) == RemoveSpecial(ReplaceSpaces(Lower(StripPrefix(str))))

InitLink ==
    /\ pc = "clean"
    /\ LET s == NewFrame(<< >>, 0, 0)
       IN  /\ text = s.text
           /\ i = s.i
           /\ block = s.block
           /\ table_found = s.table_found
           /\ code_found = s.code_found
           /\ plantuml_found = s.plantuml_found
           /\ header_done = s.header_done
           /\ math_found = s.math_found
           /\ plantuml_file = s.plantuml_file
           /\ plantuml_name = s.plantuml_name
           /\ plantuml_count = s.plantuml_count
           /\ end_pipes = s.end_pipes
           /\ no_paragraph = s.no_paragraph
           /\ depth = s.depth
           /\ path = s.path
    /\ returned = << >>
    /\ error = ""
    /\ calls = 0
    /\ last_frame = NoFrame
    /\ published = << >>
    /\ uid \in Uids
    /\ cleaned = << >>
    /\ passes = 0
    /\ ItemsIdle

\* clean_link applied to the UID, then to its own result
CleanLink ==
    /\ pc = "clean"
    /\ passes < MaxPasses
    /\ cleaned' = clean_link(IF passes = 0 THEN uid ELSE cleaned)
    /\ passes' = passes + 1
    /\ UNCHANGED << pc, locals, returned, error, calls, last_frame,
                    published, uid, itemvars >>

NextLink == CleanLink

SpecLink == InitLink /\ [][NextLink]_vars

\* ------------------------------------------------ item loops (SpecItems)
MaxItems == 3

SECTION == "\\section{Level- "
VSPACE == "\\vspace{0.8cm}"
SUBSECTION == "\\subsection{"
SUBSUBSECTION == "\\subsubsection{"
MD_LEVEL == "# *Level- "
MD_RULE ==
    "------------------------------------------------------------------------\n"
MD_SUBSECTION == "## *"
MD_END == "*\n"
DASH_SPACE == "- "

\* UIDs of two, four and five dash-separated parts
ItemUids ==
    { << "P", HYPHEN, c, HYPHEN, d, HYPHEN, "1" >> : c, d \in { "A", "B" } }
        \cup { << "P", HYPHEN, HYPHEN, HYPHEN, "1" >>,
               << "P", HYPHEN, "1" >>,
               << "P", HYPHEN, "A", HYPHEN, "B", HYPHEN, "C", HYPHEN, "1" >> }

\* an item: its UID and its formatted level
Items ==
    { [ uid |-> u, level |-> "1.0", links |-> << >>,
        parent_items |-> << >>, child_items |-> << >> ] : u \in ItemUids }
        \cup { [ uid |-> << "P", HYPHEN, "1" >>, level |-> "2.0",
                 links |-> << >>, parent_items |-> << >>,
                 child_items |-> << >> ] }

Prefixes == { "L0", "REQ" }

\* "\\subsection{" + category + "- " + sub_category + "}"
SubsectionLine(category, sub_category) ==
    << SUBSECTION >> \o category \o << DASH_SPACE >> \o sub_category
        \o << "}" >>

\* "## *" + category +"- " + sub_category + "*\n"
MarkdownSubsectionLine(category, sub_category) ==
    << MD_SUBSECTION >> \o category \o << DASH_SPACE >> \o sub_category
        \o << MD_END >>

\* Two independent tests in which the first leaves the sub-category behind.
SubsectionsStale(split_uid, prev_cat, prev_sub) ==
    IF Len(split_uid) # 4
    THEN [ out |-> << >>, prev_category |-> prev_cat,
           prev_subcategory |-> prev_sub ]
    ELSE LET category == split_uid[2]
             sub_category == split_uid[3]
             first == category # prev_cat
             second == sub_category # prev_sub
         IN  [ out |->
                   (IF first
                    THEN << SubsectionLine(category, sub_category) >>
                    ELSE << >>)
                   \o (IF second
                       THEN << SubsectionLine(category, sub_category) >>
                       ELSE << >>),
               prev_category |-> category,
               prev_subcategory |-> sub_category ]

\* "Creating subsections for each document based on adjusted levels" in
\* LaTeXPublisher.lines: two "if" in a row, the second reading what the
\* first has written.
Subsections(split_uid, prev_cat, prev_sub) ==
    IF Len(split_uid) # 4
    THEN [ out |-> << >>, prev_category |-> prev_cat,
           prev_subcategory |-> prev_sub ]
    ELSE LET category == split_uid[2]
             sub_category == split_uid[3]
             first == category # prev_cat
             cat1 == IF first THEN category ELSE prev_cat
             sub1 == IF first THEN sub_category ELSE prev_sub
             second == sub_category # sub1
         IN  [ out |->
                   (IF first
                    THEN << SubsectionLine(category, sub_category) >>
                    ELSE << >>)
                   \o (IF second
                       THEN << SubsectionLine(category, sub_category) >>
                       ELSE << >>),
               prev_category |-> cat1,
               prev_subcategory |-> IF second THEN sub_category ELSE sub1 ]

\* An "if"/"elif" whose second branch tests the category once more.
MarkdownSubsectionsSameCategory(split_uid, prev_cat, prev_sub) ==
    IF Len(split_uid) # 4
    THEN [ out |-> << >>, prev_category |-> prev_cat,
           prev_subcategory |-> prev_sub ]
    ELSE LET category == split_uid[2]
             sub_category == split_uid[3]
         IN  IF category # prev_cat
             THEN [ out |-> << MarkdownSubsectionLine(category,
                                                      sub_category) >>,
                    prev_category |-> category,
                    prev_subcategory |-> prev_sub ]
             ELSE IF sub_category # prev_sub
             THEN [ out |-> << MarkdownSubsectionLine(category,
                                                      sub_category) >>,
                    prev_category |-> prev_cat,
                    prev_subcategory |-> sub_category ]
             ELSE [ out |-> << >>, prev_category |-> prev_cat,
                    prev_subcategory |-> prev_sub ]

\* the same in MarkdownPublisher._lines_markdown: "if" / "elif"
MarkdownSubsections(split_uid, prev_cat, prev_sub) ==
    IF Len(split_uid) # 4
    THEN [ out |-> << >>, prev_category |-> prev_cat,
           prev_subcategory |-> prev_sub ]
    ELSE LET category == split_uid[2]
             sub_category == split_uid[3]
         IN  IF category # prev_cat
             THEN [ out |-> << MarkdownSubsectionLine(category,
                                                      sub_category) >>,
                    prev_category |-> category,
                    prev_subcategory |-> sub_category ]
             ELSE IF sub_category # prev_sub
             THEN [ out |-> << MarkdownSubsectionLine(category,
                                                      sub_category) >>,
                    prev_category |-> prev_cat,
                    prev_subcategory |-> sub_category ]
             ELSE [ out |-> << >>, prev_category |-> prev_cat,
                    prev_subcategory |-> prev_sub ]

\* A 'Level' header written for every item.
LevelHeaderEveryItem(item, count) ==
    IF prefix = "L0" THEN << << SECTION, "0", "}" >> >>
    ELSE << << SECTION, item.level, "}" >> >>

\* 'Level' header of LaTeXPublisher.lines, or the space before a later item
LevelHeader(item, count) ==
    IF count = 0
    THEN IF prefix = "L0" THEN << << SECTION, "0", "}" >> >>
         ELSE << << SECTION, item.level, "}" >> >>
    ELSE << << VSPACE >> >>

\* 'Level' header of _lines_markdown with its separator
MarkdownLevelHeader(item, count) ==
    IF count = 0
    THEN (IF prefix = "L0" THEN << << MD_LEVEL, "0", MD_END >> >>
          ELSE << << MD_LEVEL, item.level, MD_END >> >>)
             \o << << MD_RULE >> >>
    ELSE << >>

\* The heading of the item stands for all it yields after the subsection
\* lines (heading, text, attributes, references, links).
ItemBody(item) == << << SUBSUBSECTION >> \o item.uid \o << "}" >> >>

MarkdownItemBody(item) == << << "## " >> \o item.uid >>

PARENT_LINKS == "Parent links:"
CHILD_LINKS == "Child links:"
LINKS_LABEL == "Links:"
TEXTBF == "\\textbf{"

\* kwargs.get("linkify", False)
linkify == FALSE

\* ", ".join(links)
RECURSIVE Join(_)
Join(parts) ==
    IF parts = << >> THEN << >>
    ELSE IF Len(parts) = 1 THEN parts[1]
    ELSE parts[1] \o << ", " >> \o Join(Tail(parts))

\* LaTeXPublisher.format_links with format_item_link; a linked item is its UID
FormatLinks(linked) ==
    Join([k \in 1..Len(linked) |->
            IF linkify
            THEN << "\\hyperref[", linked[k], "]{", linked[k], "}" >>
            ELSE << linked[k] >>])

\* LaTeXPublisher.format_label_links
FormatLabelLinks(lb, ls) ==
    IF linkify THEN << TEXTBF, lb, "}", SPACE >> \o ls
    ELSE << TEXTBF, lb, SPACE >> \o ls \o << "}" >>

\* "Parent and Child links" of LaTeXPublisher.lines: label_links is written
\* for the parents, then for the children, and yielded once.
ParentChildLinks(item) ==
    IF ~publish_child_links THEN << >>
    ELSE LET items2 == item.child_items
             label_links0 == << >>
             label_links1 ==
                 IF item.links # << >>
                 THEN FormatLabelLinks(PARENT_LINKS,
                                       FormatLinks(item.parent_items))
                 ELSE label_links0
             label_links2 ==
                 IF items2 # << >>
                 THEN FormatLabelLinks(CHILD_LINKS, FormatLinks(items2))
                 ELSE label_links1
         IN  IF item.links # << >> \/ items2 # << >>
             THEN << label_links2 >> ELSE << >>

\* MarkdownPublisher.format_links with format_item_link; the anchor of the
\* link (prefix and cleaned heading of the linked item) is left out
MarkdownFormatLinks(linked) ==
    Join([k \in 1..Len(linked) |->
            << LBRACKET, linked[k], LINK, ".md#", RPAREN >>])

\* MarkdownPublisher.format_label_links
MarkdownFormatLabelLinks(lb, ls) ==
    IF linkify THEN << "*", lb, "*", SPACE >> \o ls
    ELSE << "*", lb, SPACE >> \o ls \o << "*" >>

\* "Parent & Child links" of _lines_markdown: label and links are assigned
\* under the setting only and read in any case; reading them unassigned
\* raises UnboundLocalError.
MarkdownLinks(item, old_label, old_links, was_bound) ==
    IF item.links = << >>
    THEN [ raises |-> FALSE, out |-> << >>, label |-> old_label,
           links |-> old_links, bound |-> was_bound ]
    ELSE LET items2 == item.parent_items
             items3 == item.child_items
             lb == IF ~publish_child_links THEN old_label
                   ELSE IF items2 # << >> THEN PARENT_LINKS
                   ELSE IF items3 # << >> THEN CHILD_LINKS
                   ELSE LINKS_LABEL
             ls == IF ~publish_child_links THEN old_links
                   ELSE MarkdownFormatLinks(items2)
             b == was_bound \/ publish_child_links
         IN  [ raises |-> ~b,
               out |-> IF b THEN << MarkdownFormatLabelLinks(lb, ls) >>
                       ELSE << >>,
               label |-> lb, links |-> ls, bound |-> b ]

InitItems ==
    /\ pc = "items"
    /\ FrameIdle
    /\ returned = << >>
    /\ error = ""
    /\ calls = 0
    /\ last_frame = NoFrame
    /\ published = << >>
    /\ uid = << >>
    /\ cleaned = << >>
    /\ passes = 0
    /\ items \in UNION { [1..n -> Items] : n \in 0..MaxItems }
    /\ prefix \in Prefixes
    /\ lines_pc = "loop"
    /\ item_count = 0
    /\ prev_category = << >>
    /\ prev_subcategory = << >>
    /\ yielded = << >>
    /\ md_item_count = 0
    /\ md_prev_category = << >>
    /\ md_prev_subcategory = << >>
    /\ md_yielded = << >>
    /\ publish_child_links = TRUE
    /\ label = ""
    /\ links = << >>
    /\ bound = FALSE
    /\ md_error = ""

notitems == << locals, returned, error, calls, last_frame, published, uid,
               cleaned, passes >>

\* one iteration of "for item in iter_items(obj)" in LaTeXPublisher.lines
LinesItem ==
    /\ pc = "items"
    /\ lines_pc = "loop"
    /\ item_count < Len(items)
    /\ LET item == items[item_count + 1]
           split_uid == Split(item.uid, HYPHEN)
           r == Subsections(split_uid, prev_category, prev_subcategory)
       IN  /\ yielded' = Append(yielded,
                                LevelHeader(item, item_count) \o r.out
                                    \o ItemBody(item)
                                    \o ParentChildLinks(item)
                                    \o << << >> >>)
           /\ prev_category' = r.prev_category
           /\ prev_subcategory' = r.prev_subcategory
    /\ item_count' = item_count + 1
    /\ UNCHANGED << pc, notitems, items, prefix, lines_pc, md_item_count,
                    md_prev_category, md_prev_subcategory, md_yielded,
                    publish_child_links, label, links, bound, md_error >>

\* "yield ''  # break between requirements"
LinesEnd ==
    /\ pc = "items"
    /\ lines_pc = "loop"
    /\ item_count = Len(items)
    /\ lines_pc' = "done"
    /\ yielded' = Append(yielded, << << >> >>)
    /\ UNCHANGED << pc, notitems, items, prefix, item_count, prev_category,
                    prev_subcategory, md_item_count, md_prev_category,
                    md_prev_subcategory, md_yielded, publish_child_links,
                    label, links, bound, md_error >>

\* one iteration of "for item in iter_items(obj)" in _lines_markdown
LinesMarkdownItem ==
    /\ pc = "items"
    /\ md_error = ""
    /\ md_item_count < Len(items)
    /\ LET item == items[md_item_count + 1]
           split_uid == Split(item.uid, HYPHEN)
           r == MarkdownSubsections(split_uid, md_prev_category,
                                    md_prev_subcategory)
           l == MarkdownLinks(item, label, links, bound)
       IN  /\ ~l.raises
           /\ md_yielded' = Append(md_yielded,
                                   MarkdownLevelHeader(item, md_item_count)
                                       \o r.out \o MarkdownItemBody(item)
                                       \o l.out \o << << NEWLINE >> >>)
           /\ md_prev_category' = r.prev_category
           /\ md_prev_subcategory' = r.prev_subcategory
           /\ label' = l.label
           /\ links' = l.links
           /\ bound' = l.bound
    /\ md_item_count' = md_item_count + 1
    /\ UNCHANGED << pc, notitems, items, prefix, lines_pc, item_count,
                    prev_category, prev_subcategory, yielded,
                    publish_child_links, md_error >>

\* an iteration of _lines_markdown that reads label unassigned: the
\* generator ends with the error after what the item has yielded so far
LinesMarkdownUnbound ==
    /\ pc = "items"
    /\ md_error = ""
    /\ md_item_count < Len(items)
    /\ LET item == items[md_item_count + 1]
           split_uid == Split(item.uid, HYPHEN)
           r == MarkdownSubsections(split_uid, md_prev_category,
                                    md_prev_subcategory)
           l == MarkdownLinks(item, label, links, bound)
       IN  /\ l.raises
           /\ md_yielded' = Append(md_yielded,
                                   MarkdownLevelHeader(item, md_item_count)
                                       \o r.out \o MarkdownItemBody(item))
           /\ md_prev_category' = r.prev_category
           /\ md_prev_subcategory' = r.prev_subcategory
    /\ md_error' = "UnboundLocalError"
    /\ UNCHANGED << pc, notitems, items, prefix, lines_pc, item_count,
                    prev_category, prev_subcategory, yielded, md_item_count,
                    publish_child_links, label, links, bound >>

NextItems == LinesItem \/ LinesEnd \/ LinesMarkdownItem

SpecItems == InitItems /\ [][NextItems]_vars

\* ------------------------------------------- items with links (SpecLinked)
\* items with or without links, parent items found and child items
LinkedItems ==
    { [ uid |-> << "P", HYPHEN, "1" >>, level |-> "1.0", links |-> l,
        parent_items |-> p, child_items |-> c ] :
        l \in { << >>, << "PA", "PB" >> },
        p \in { << >>, << "PA", "PB" >> },
        c \in { << >>, << "CH" >> } }

\* the parent items are found from the links of the item
Linked == { it \in LinkedItems : Len(it.parent_items) <= Len(it.links) }

InitLinked ==
    /\ pc = "items"
    /\ FrameIdle
    /\ returned = << >>
    /\ error = ""
    /\ calls = 0
    /\ last_frame = NoFrame
    /\ published = << >>
    /\ uid = << >>
    /\ cleaned = << >>
    /\ passes = 0
    /\ items \in UNION { [1..n -> Linked] : n \in 0..MaxItems }
    /\ prefix = "REQ"
    /\ lines_pc = "loop"
    /\ item_count = 0
    /\ prev_category = << >>
    /\ prev_subcategory = << >>
    /\ yielded = << >>
    /\ md_item_count = 0
    /\ md_prev_category = << >>
    /\ md_prev_subcategory = << >>
    /\ md_yielded = << >>
    /\ publish_child_links \in BOOLEAN
    /\ label = ""
    /\ links = << >>
    /\ bound = FALSE
    /\ md_error = ""

NextLinked == NextItems \/ LinesMarkdownUnbound

SpecLinked == InitLinked /\ [][NextLinked]_vars

\* ------------------------------------------------------------------ claims
Count(line, tok) == Cardinality({ k \in 1..Len(line) : line[k] = tok })

StartsWith(line, tok) == Len(line) > 0 /\ line[1] = tok

IsPrefix(p, line) == Len(p) <= Len(line) /\ SubSeq(line, 1, Len(p)) = p

Terminated == pc \in { "returned", "raised" }

\* a diagram-opening line without a title attribute
UntitledOpen(line) == IsPlantumlOpen(line) /\ ~HasTitle(line)

FirstUntitled ==
    CHOOSE k \in 1..Len(text) :
        UntitledOpen(text[k]) /\ \A j \in 1..(k - 1) : ~UntitledOpen(text[j])

\* the last diagram-opening line of the text
LastOpen ==
    CHOOSE k \in 1..Len(text) :
        IsPlantumlOpen(text[k])
            /\ \A j \in (k + 1)..Len(text) : ~IsPlantumlOpen(text[j])

\* C1: after every processed line the code-span flag and the diagram-span
\* flag are never both active.
C1_CodeAndDiagramExclusive == ~(code_found /\ plantuml_found)

\* C2: when the call returns, every begin-verbatim-block line of the output
\* is followed by an end-verbatim-block line, so a code span still open after
\* the last input line has been force-closed.
C2_CodeSpanForceClosed ==
    pc = "returned" =>
        \A k \in 1..Len(returned) :
            (StartsWith(returned[k], BEGIN_LSTLISTING)
                 \/ StartsWith(returned[k], BEGIN_LSTLISTING_LANG))
                => \E m \in (k + 1)..Len(returned) :
                       returned[m] = << END_LSTLISTING >>

\* C3: when the call returns, every table-open line of the output is followed
\* by a table-close line, whatever kind of line the last input line is.
C3_TableForceClosed ==
    pc = "returned" =>
        \A k \in 1..Len(returned) :
            StartsWith(returned[k], BEGIN_LONGTABLE)
                => \E m \in (k + 1)..Len(returned) :
                       returned[m] = << END_LONGTABLE >>

\* C4: when the call returns with a diagram still open, the output holds,
\* after the last buffered diagram line, exactly one end-diagram line,
\* immediately followed by exactly one render-figure line that carries the
\* slug and the title of the open diagram (the last one opened).
C4_DiagramForceClosed ==
    (pc = "returned" /\ plantuml_found) =>
        LET n == Len(returned)
            title == TitleOf(text[LastOpen])
            last == text[Len(text)]
            buffered == IF IsPlantumlOpen(last)
                        THEN BeginPlantumlLine(Slug(title)) ELSE last
        IN  \E b \in 1..n :
                /\ returned[b] = buffered
                /\ LET T == SubSeq(returned, b + 1, n)
                   IN  /\ Cardinality({ k \in 1..Len(T) :
                                          T[k] = << END_PLANTUML >> }) = 1
                       /\ Cardinality({ k \in 1..Len(T) :
                                          StartsWith(T[k], PROCESS) }) = 1
                       /\ \E k \in 1..(Len(T) - 1) :
                              /\ T[k] = << END_PLANTUML >>
                              /\ T[k + 1] = << PROCESS >> \o Slug(title)
                                     \o << TEXTWIDTH >> \o title \o << "}" >>

C4_Witness ==
    /\ pc = "returned"
    /\ plantuml_found
    /\ code_found
    /\ table_found
    /\ Len(text) = 3

\* C5 (as stated): a text that contains a diagram-opening line without a
\* title fails with the missing-title error and hands the caller no output.
C5_MissingTitleAlways ==
    (Terminated /\ \E k \in 1..Len(text) : UntitledOpen(text[k])) =>
        /\ pc = "raised"
        /\ error = "missing_title"
        /\ returned = << >>

\* C5 (amended): a text that contains a diagram-opening line without a title
\* fails and hands the caller no output; the error is the missing-title
\* error, raised at the first such line, unless an earlier line with more
\* than two $$ has raised the multiple-math error before.
C5_MissingTitleUnlessEarlierError ==
    (Terminated /\ \E k \in 1..Len(text) : UntitledOpen(text[k])) =>
        /\ pc = "raised"
        /\ returned = << >>
        /\ \/ error = "missing_title" /\ i = FirstUntitled
           \/ /\ error = "multiple_math"
              /\ i < FirstUntitled
              /\ Count(text[i], MATH) > 2

C5_Witness ==
    /\ pc = "raised"
    /\ error = "missing_title"
    /\ i = 3
    /\ code_found
    /\ plantuml_found
    /\ block # << >>

\* C6: a line that reaches the math stage raises the multiple-math error
\* (and the call hands over no output) exactly when it holds more than two
\* $$; no other line raises it, whether or not a math span is open.
C6_MultipleMathIffMoreThanTwo ==
    [][ (pc = "loop" /\ i <= Len(text)) =>
          LET m == UpToMath(Frame)
          IN  (pc' = "raised" /\ error' = "multiple_math"
                  /\ returned' = << >>)
                  <=> (m.path = "" /\ Count(m.line, MATH) > 2) ]_vars

C6_Witness ==
    /\ pc = "raised"
    /\ error = "multiple_math"
    /\ math_found
    /\ i > 1

\* C7: the call raises no error on a text that holds neither a
\* diagram-opening line without a title nor a line with more than two $$.
C7_NoOtherError ==
    pc = "raised" =>
        \E k \in 1..Len(text) :
            UntitledOpen(text[k]) \/ Count(text[k], MATH) > 2

C7_Witness ==
    /\ pc = "returned"
    /\ code_found
    /\ plantuml_found
    /\ table_found
    /\ error = ""

\* a line with a special construct
Special(line) ==
    \/ Has(line, PLANTUML)
    \/ Has(line, ENDUML)
    \/ Has(line, FENCE)
    \/ Has(line, MATH)
    \/ Has(line, MARKER)
    \/ Has(line, PIPE)

Plain == \A k \in 1..Len(text) : ~Special(text[k])

\* C8: for a text without special constructs the call returns as many lines
\* as it was given, and output line k is the inline conversion of input line
\* k, with at most a hard line-break added.
C8_PlainLinesOneToOne ==
    (Plain /\ pc \in { "loop", "returned" }) =>
        /\ Len(block) = i - 1
        /\ pc = "returned" => returned = block /\ Len(returned) = Len(text)
        /\ \A k \in 1..Len(block) :
               LET c == latex_convert(InlineCode(text[k]))
               IN  block[k] \in { c, c \o << HARD_BREAK >> }

C8_Witness ==
    /\ pc = "returned"
    /\ Plain
    /\ Len(text) = 3
    /\ returned[1] = << "x", HARD_BREAK >>
    /\ returned[3] = latex_convert(UnderscoreLine)

C10_CloseEmitsEndThenRender ==
    [][ (pc = "loop" /\ i <= Len(text) /\ plantuml_found
            /\ HasEnduml(text[i]) /\ ~IsPlantumlOpen(text[i])
            /\ pc' = "loop") =>
          LET new == SubSeq(block', Len(block) + 1, Len(block'))
          IN  /\ Cardinality({ k \in 1..Len(new) :
                                 new[k] = << END_PLANTUML >> }) = 1
              /\ Cardinality({ k \in 1..Len(new) :
                                 StartsWith(new[k], PROCESS) }) = 1
              /\ \E k \in 1..(Len(new) - 1) :
                     /\ new[k] = << END_PLANTUML >>
                     /\ IsPrefix(ProcessLine(plantuml_file, plantuml_name,
                                             plantuml_count), new[k + 1]) ]_vars

\* the lines the step appends to the block
NewLines == SubSeq(block', Len(block) + 1, Len(block'))

\* a step that processes line i and goes on
Processes == pc = "loop" /\ i <= Len(text) /\ pc' = "loop"

EndsWith(line, tok) == Len(line) > 0 /\ line[Len(line)] = tok

\* the lines _check_for_eof appends after the last line
EofLines ==
    IF i # Len(text) THEN << >>
    ELSE (IF code_found' THEN << << END_LSTLISTING >> >> ELSE << >>)
         \o (IF plantuml_found'
             THEN << << END_PLANTUML >>,
                     EofProcessLine(plantuml_file', plantuml_name') >>
             ELSE << >>)
         \o (IF table_found' THEN << << END_LONGTABLE >> >> ELSE << >>)

\* C11: within a call the diagram counter never decreases; the k-th
\* diagram-opening line gets the counter value k and appends exactly one
\* forward-reference line labelled k, immediately followed by the
\* begin-diagram line; no other line changes the counter or appends a
\* forward reference.
C11_CounterNumbersOpenings ==
    [][ Processes =>
          LET k == Cardinality({ j \in 1..i : IsPlantumlOpen(text[j]) })
              refs == { j \in 1..Len(NewLines) :
                          StartsWith(NewLines[j], HYPERREF) }
          IN  /\ plantuml_count' >= plantuml_count
              /\ plantuml_count' = k
              /\ IF IsPlantumlOpen(text[i])
                 THEN /\ plantuml_count' = plantuml_count + 1
                      /\ refs = { 1 }
                      /\ NewLines[1] = << HYPERREF, ToString(k), "]{" >>
                             \o TitleOf(text[i]) \o << "}" >>
                      /\ NewLines[2] = << BEGIN_PLANTUML >>
                             \o Slug(TitleOf(text[i])) \o << "}" >>
                 ELSE refs = { } ]_vars

C11_Witness ==
    /\ pc = "loop"
    /\ plantuml_count = 2
    /\ Cardinality({ k \in 1..Len(block) :
                       StartsWith(block[k], HYPERREF) }) = 2
    /\ block[1] # block[3]

\* C12: while a table is open, an input line without a pipe closes it at
\* that line: exactly one table-close line is appended and the table state is
\* outside again, the header-consumed flag reset.
C12_NoPipeClosesTable ==
    [][ (Processes /\ table_found /\ ~Has(text[i], PIPE)) =>
          /\ Cardinality({ k \in 1..Len(NewLines) :
                             NewLines[k] = << END_LONGTABLE >> }) = 1
          /\ ~table_found'
          /\ ~header_done' ]_vars

\* C13 (as stated): while a math span is open after a line, every output
\* line emitted for that line ends with the hard line-break marker.
C13_EveryMathLineBreaks ==
    [][ (Processes /\ math_found') =>
          \A k \in 1..Len(NewLines) : EndsWith(NewLines[k], HARD_BREAK) ]_vars

\* C13 (amended): while a math span is open after a line that reaches the
\* math stage, the line itself is emitted last and ends with the hard
\* line-break marker; a line absorbed by a diagram or code span or a skipped
\* fence, and the two lines a closing marker appends in the diagram stage,
\* get none.
C13_MathStageLineBreaks ==
    [][ (Processes /\ math_found'
            /\ path' \notin { "diagram", "code", "skip" }) =>
          /\ path' = "math"
          /\ NewLines # << >>
          /\ EndsWith(NewLines[Len(NewLines)], HARD_BREAK)
          /\ Len(NewLines) = IF HasEnduml(text[i]) THEN 3 ELSE 1 ]_vars

C13_Witness ==
    /\ pc = "loop"
    /\ path = "math"
    /\ math_found
    /\ i = 4
    /\ Len(block) = 3
    /\ \A k \in 1..3 : EndsWith(block[k], HARD_BREAK)

\* C14: after every processed line the code-span flag and the table-open
\* flag are never both active.
C14_CodeAndTableExclusive == ~(code_found /\ table_found)

\* C17: while a diagram is open, a line before the closing marker is
\* appended unchanged and nothing else is (but the forced close after the
\* last line); the counter, the title and the slug stay and no error is
\* raised.
C17_DiagramLinesVerbatim ==
    [][ (pc = "loop" /\ i <= Len(text) /\ plantuml_found
            /\ ~HasEnduml(text[i])) =>
          /\ pc' = "loop"
          /\ NewLines = << text[i] >> \o EofLines
          /\ UNCHANGED << plantuml_count, plantuml_name, plantuml_file >> ]_vars

\* C18: while a code span is open, a line without a fence is appended once,
\* unchanged, and nothing else is (but the forced close after the last
\* line).
C18_CodeLinesVerbatim ==
    [][ (Processes /\ code_found /\ ~HasFence(text[i])) =>
          NewLines = << text[i] >> \o EofLines ]_vars

\* C19 (as stated): a line with a code fence whose preceding line holds the
\* diagram-close marker appends nothing and leaves the code, diagram, math
\* and table states unchanged.
C19_FenceAfterEndumlIgnored ==
    [][ (pc = "loop" /\ i <= Len(text) /\ i > 1 /\ HasFence(text[i])
            /\ HasEnduml(text[i - 1])) =>
          /\ pc' = "loop"
          /\ block' = block
          /\ UNCHANGED << code_found, plantuml_found, math_found,
                          table_found, header_done >> ]_vars

\* C19 (amended): a line with a code fence that reaches the code stage (it
\* is no diagram-opening line and no diagram is open) and whose preceding
\* line holds the diagram-close marker appends nothing and leaves the code,
\* diagram, math and table states unchanged, whether or not a code span is
\* open.
C19_FenceAtCodeStageIgnored ==
    [][ (pc = "loop" /\ i <= Len(text) /\ i > 1 /\ HasFence(text[i])
            /\ HasEnduml(text[i - 1]) /\ ~HasEnduml(text[i])
            /\ ~IsPlantumlOpen(text[i]) /\ ~plantuml_found) =>
          /\ pc' = "loop"
          /\ path' = "skip"
          /\ block' = block
          /\ UNCHANGED << code_found, plantuml_found, math_found,
                          table_found, header_done >> ]_vars

C19_Witness ==
    /\ pc = "loop"
    /\ path = "skip"
    /\ code_found
    /\ i = 4
    /\ text[3] = FenceLangLine

\* C20: a line after whose diagram stage a diagram is active leaves the
\* code, math, table and header-consumed states unchanged; a line after
\* whose code stage a code span is active leaves the math, table and
\* header-consumed states (and the list context) unchanged and is added as
\* the code stage left it, unconverted.
C20_StagesShortCircuit ==
    [][ Processes =>
          /\ plantuml_found' =>
                 /\ path' = "diagram"
                 /\ UNCHANGED << code_found, math_found, table_found,
                                 header_done, end_pipes, depth >>
          /\ (~plantuml_found' /\ code_found') =>
                 /\ path' \in { "code", "skip" }
                 /\ UNCHANGED << math_found, table_found, header_done,
                                 end_pipes, depth >>
                 /\ (path' = "code" /\ ~HasFence(text[i])
                         /\ ~HasEnduml(text[i]))
                        => NewLines = << text[i] >> \o EofLines ]_vars

C20_Witness ==
    /\ pc = "loop"
    /\ path = "code"
    /\ code_found
    /\ math_found
    /\ ~table_found
    /\ i = 4
    /\ text[3] = UnderscoreLine
    /\ block[Len(block) - 1] = UnderscoreLine
    /\ block[Len(block)] = << END_LSTLISTING >>

\* line k of block b lies inside a verbatim block or a diagram environment
InSpan(b, k) ==
    \E o \in 1..(k - 1) :
        \/ /\ \/ StartsWith(b[o], BEGIN_LSTLISTING)
              \/ StartsWith(b[o], BEGIN_LSTLISTING_LANG)
           /\ \A j \in (o + 1)..k : b[j] # << END_LSTLISTING >>
        \/ /\ StartsWith(b[o], BEGIN_PLANTUML)
           /\ \A j \in (o + 1)..k : b[j] # << END_PLANTUML >>

\* C15: in the published body of an item the lines inside a code span or a
\* diagram span are as _format_latex_text returned them: their "_" and "^"
\* are not escaped.
C15_SpanLinesNotEscaped ==
    pc = "published" =>
        /\ Len(published) = Len(returned)
        /\ \A k \in 1..Len(returned) :
               InSpan(returned, k) => published[k] = returned[k]

\* C16: clean_link returns only lowercase letters, digits and hyphens, every
\* space left after the stripped prefix being a hyphen of the result, and a
\* second application changes nothing.
C16_CleanLinkAlphabetAndIdempotent ==
    passes >= 1 =>
        /\ \A k \in 1..Len(cleaned) : cleaned[k] \in { "a", "b", "7", "-" }
        /\ LET rest == StripPrefix(uid)
           IN  Count(cleaned, "-") = Count(rest, " ") + Count(rest, "-")
        /\ cleaned = clean_link(uid)
        /\ clean_link(cleaned) = cleaned

C16_Witness ==
    /\ passes = 2
    /\ uid = << "B", " ", "a" >>
    /\ cleaned = << "b", "-", "a" >>

\* the step processes a line that reaches the math stage and does not raise
ReachesMath == Processes /\ path' \in { "math", "normal" }

\* C21: a line that reaches the math stage flips the math-open state when
\* it holds exactly one $$ and leaves it when it holds none or two; a step
\* that does not reach the math stage leaves the math-open state.
C21_MathStateFlips ==
    [][ IF ReachesMath
        THEN /\ Count(text[i], MATH) = 1 => math_found' = ~math_found
             /\ Count(text[i], MATH) \in { 0, 2 } => math_found' = math_found
        ELSE math_found' = math_found ]_vars

C21_Witness ==
    /\ pc = "loop"
    /\ i = 4
    /\ text = << MathOneLine, MathTwoLine, MathOneLine >>
    /\ ~math_found
    /\ path = "normal"

\* C22: text inside a math span is not converted: a line without $$ inside
\* an open span is emitted as the inline-code stage left it (plus the hard
\* break), and the middle segment of a line with two $$ is emitted as it is.
C22_MathTextNotConverted ==
    [][ ReachesMath =>
          /\ (math_found /\ Count(text[i], MATH) = 0
                  /\ ~HasEnduml(text[i])) =>
                 NewLines = << InlineCode(text[i]) \o << HARD_BREAK >> >>
          /\ (~math_found /\ Count(text[i], MATH) = 2) =>
                 LET seg == Split(InlineCode(text[i]), MATH)[2]
                     out == NewLines[1]
                 IN  \E k \in 1..Len(out) :
                         /\ out[k] = "$"
                         /\ k + Len(seg) + 1 <= Len(out)
                         /\ SubSeq(out, k + 1, k + Len(seg)) = seg
                         /\ out[k + Len(seg) + 1] = "$" ]_vars

\* C23: no text is converted twice: a line holds at most one backslash for
\* each reserved character of its input line, never two in a row, and a line
\* absorbed by a code or diagram span is added as it came.
C23_ConvertedAtMostOnce ==
    [][ Processes =>
          /\ \A k \in 1..Len(NewLines) :
                 /\ Count(NewLines[k], BACKSLASH)
                        <= Count(text[i], UNDERSCORE) + Count(text[i], CARET)
                 /\ \A j \in 1..(Len(NewLines[k]) - 1) :
                        ~(NewLines[k][j] = BACKSLASH
                              /\ NewLines[k][j + 1] = BACKSLASH)
          /\ (path' \in { "diagram", "code" } /\ ~IsPlantumlOpen(text[i])
                  /\ ~HasEnduml(text[i]) /\ ~HasFence(text[i])) =>
                 NewLines[1] = text[i] ]_vars

C23_Witness ==
    /\ pc = "loop"
    /\ i = 4
    /\ text = << UnderscoreLine, FenceLine, UnderscoreLine >>
    /\ block[1] = << "a", BACKSLASH, UNDERSCORE, "b" >>
    /\ block[3] = UnderscoreLine

LinesWith(b, tok) == { k \in 1..Len(b) : StartsWith(b[k], tok) }

\* C25: in every prefix of the output the end-diagram lines are no more
\* than the begin-diagram lines, and a closing marker met while no diagram
\* is open adds no end-diagram line and no render line.
C25_EndOnlyForOpenDiagram ==
    [][ Processes =>
          /\ \A n \in 0..Len(block') :
                 Cardinality(LinesWith(SubSeq(block', 1, n), END_PLANTUML))
                     <= Cardinality(LinesWith(SubSeq(block', 1, n),
                                              BEGIN_PLANTUML))
          /\ (~plantuml_found /\ HasEnduml(text[i])
                  /\ ~IsPlantumlOpen(text[i])) =>
                 /\ LinesWith(NewLines, END_PLANTUML) = { }
                 /\ LinesWith(NewLines, PROCESS) = { } ]_vars

\* the divider lines of the table opened at line o of block b
DividersOf(b, o) ==
    { k \in (o + 1)..Len(b) :
        /\ b[k] = << HLINE >>
        /\ \A j \in (o + 1)..k : ~StartsWith(b[j], BEGIN_LONGTABLE) }

\* a pipe line processed by the table stage while a table is open: the
\* divider when the header row is pending, a body row afterwards
TableRows ==
    (Processes /\ path' = "normal" /\ table_found /\ Has(text[i], PIPE)) =>
        /\ table_found'
        /\ header_done'
        /\ IF ~header_done
           THEN NewLines = << << HLINE >> >> \o EofLines
           ELSE /\ Len(NewLines) = 1 + Len(EofLines)
                /\ NewLines[1] # << HLINE >>
                /\ ~Has(NewLines[1], PIPE)
                /\ Has(NewLines[1], "&")
                /\ EndsWith(NewLines[1], HARD_BREAK)

\* C24 (as stated): the pipe line after the header row becomes the divider,
\* later pipe lines of the table become body rows, and each table of the
\* returned block has exactly one divider.
C24_ExactlyOneDivider ==
    [][ /\ TableRows
        /\ pc' = "returned" =>
               \A o \in LinesWith(returned', BEGIN_LONGTABLE) :
                   Cardinality(DividersOf(returned', o)) = 1 ]_vars

\* C24 (amended): the pipe line after the header row becomes the divider,
\* later pipe lines of the table become body rows, and each table has at
\* most one divider: one as soon as a second pipe line of it has reached the
\* table stage, none before.
C24_AtMostOneDivider ==
    [][ /\ TableRows
        /\ Processes =>
               /\ \A o \in LinesWith(block', BEGIN_LONGTABLE) :
                      Cardinality(DividersOf(block', o)) <= 1
               /\ table_found' =>
                      LET T == LinesWith(block', BEGIN_LONGTABLE)
                          o == CHOOSE k \in T : \A j \in T : j <= k
                      IN  header_done'
                              <=> Cardinality(DividersOf(block', o)) = 1
               /\ header_done' => table_found' ]_vars

C24_Witness ==
    /\ pc = "loop"
    /\ i = 4
    /\ text = << TableLine, TableLine, SeparatorLine >>
    /\ block[3] = << HLINE >>
    /\ block[4] = << "-", "&", "-", HARD_BREAK >>
    /\ header_done

\* the frame of the current line as the look-ahead stage receives it
BeforeParagraph == TableStage(ListStage(MathStage(UpToMath(Frame))))

HasLinkForm(line) ==
    /\ Has(line, LBRACKET)
    /\ LET p == First(line, LBRACKET)
           rest == SubSeq(line, p + 1, Len(line))
       IN  /\ ~Has(SubSeq(line, 1, p - 1), LINK)
           /\ Has(rest, LINK)
           /\ ~Has(SubSeq(rest, 1, First(rest, LINK) - 1), LBRACKET)
           /\ Has(SubSeq(rest, First(rest, LINK) + 1, Len(rest)), RPAREN)

LinkParts(line) ==
    LET p == First(line, LBRACKET)
        rest == SubSeq(line, p + 1, Len(line))
        m == First(rest, LINK)
        tail == SubSeq(rest, m + 1, Len(rest))
        q == First(tail, RPAREN)
    IN  [ pre |-> SubSeq(line, 1, p - 1),
          label |-> SubSeq(rest, 1, m - 1),
          target |-> SubSeq(tail, 1, q - 1),
          post |-> SubSeq(tail, q + 1, Len(tail)) ]

\* C26: _format_href_text yields one line for each input line and raises
\* no error.
C26_HrefOneLinePerLine ==
    pc = "published" => (error = "" /\ Len(published) = Len(returned))

\* C27: a line pre + [label](target) + post comes out as the escaped pre,
\* the hyperlink macro with the target and the escaped label, and the whole
\* escaped post.
C27_HrefKeepsPreAndPost ==
    pc = "published" =>
        \A k \in 1..Len(published) :
            HasLinkForm(returned[k]) =>
                LET l == LinkParts(returned[k])
                IN  published[k] =
                        Escape(l.pre, UNDERSCORE) \o << HREF, "{" >>
                            \o l.target \o << "}", "{" >>
                            \o Escape(l.label, UNDERSCORE) \o << "}" >>
                            \o Escape(l.post, UNDERSCORE)

\* item n has a UID of exactly four dash-separated parts
FourPart(n) == Len(Split(items[n].uid, HYPHEN)) = 4

\* the (category, sub-category) pair of the four-part item n
PairOf(n) ==
    << Split(items[n].uid, HYPHEN)[2], Split(items[n].uid, HYPHEN)[3] >>

\* the pair of the last four-part item among the first n, or the empty pair
LastPair(n) ==
    LET E == { j \in 1..n : FourPart(j) }
    IN  IF E = { } THEN << << >>, << >> >>
        ELSE PairOf(CHOOSE k \in E : \A j \in E : j <= k)

\* the subsection lines among the lines an iteration yielded
HeadingsIn(out, tok) == SelectSeq(out, LAMBDA l : StartsWith(l, tok))

\* C29: in LaTeXPublisher.lines an item gets a subsection heading exactly
\* when its UID has four parts and its pair differs from the pair of the most
\* recent earlier four-part item (the empty pair when there is none), it gets
\* at most one, and after each item the remembered pair is that of the last
\* four-part item.
C29_SubsectionIffPairChanges ==
    /\ \A n \in 1..item_count :
           HeadingsIn(yielded[n], SUBSECTION) =
               IF FourPart(n) /\ PairOf(n) # LastPair(n - 1)
               THEN << SubsectionLine(PairOf(n)[1], PairOf(n)[2]) >>
               ELSE << >>
    /\ << prev_category, prev_subcategory >> = LastPair(item_count)

C29_Witness ==
    /\ item_count = 3
    /\ FourPart(1) /\ ~FourPart(2) /\ FourPart(3)
    /\ PairOf(1) = << << "A" >>, << "A" >> >>
    /\ PairOf(3) = << << "B" >>, << "A" >> >>
    /\ HeadingsIn(yielded[3], SUBSECTION)
           = << SubsectionLine(<< "B" >>, << "A" >>) >>
    /\ HeadingsIn(yielded[2], SUBSECTION) = << >>

Parts == { << >>, << "A" >>, << "B" >> }

\* C30: the two publishers emit a subsection heading for the same items and
\* with the same category and sub-category.
C30_SameSubsections ==
    \A n \in 1..item_count :
        n <= md_item_count =>
            LET tex == HeadingsIn(yielded[n], SUBSECTION)
                md == HeadingsIn(md_yielded[n], MD_SUBSECTION)
            IN  /\ Len(tex) = Len(md)
                /\ \A k \in 1..Len(tex) :
                       \E c, d \in Parts :
                           /\ tex[k] = SubsectionLine(c, d)
                           /\ md[k] = MarkdownSubsectionLine(c, d)

C30_Witness ==
    /\ item_count = 3
    /\ md_item_count = 3
    /\ FourPart(1) /\ PairOf(1) = << << "A" >>, << "A" >> >>
    /\ FourPart(2) /\ PairOf(2) = << << "B" >>, << "A" >> >>
    /\ FourPart(3) /\ PairOf(3) = << << "B" >>, << "B" >> >>
    /\ HeadingsIn(md_yielded[2], MD_SUBSECTION) # << >>
    /\ HeadingsIn(md_yielded[3], MD_SUBSECTION) # << >>
    /\ HeadingsIn(yielded[3], SUBSECTION) # << >>

\* the lines among all iterations' output that start with tok, as pairs
\* << iteration, position >>
Starts(out, tok) ==
    { << n, k >> \in (1..Len(out)) \X (1..8) :
        k <= Len(out[n]) /\ StartsWith(out[n][k], tok) }

\* the level the 'Level' heading shows for the first item
TopLevel == IF prefix = "L0" THEN "0" ELSE items[1].level

\* C31: each publisher emits one 'Level' heading, as its first line and from
\* the first item; the LaTeX publisher starts every later item with one
\* vertical-space line and emits no second 'Level' heading.
C31_OneLevelHeading ==
    /\ item_count >= 1 =>
           /\ yielded[1][1] = << SECTION, TopLevel, "}" >>
           /\ Starts(yielded, SECTION) = { << 1, 1 >> }
           /\ Starts(yielded, VSPACE) = { << n, 1 >> : n \in 2..item_count }
    /\ md_item_count >= 1 =>
           /\ md_yielded[1][1] = << MD_LEVEL, TopLevel, MD_END >>
           /\ Starts(md_yielded, MD_LEVEL) = { << 1, 1 >> }

C31_Witness ==
    /\ item_count = 3
    /\ md_item_count = 3
    /\ lines_pc = "done"
    /\ prefix = "REQ"
    /\ items[1].level = "2.0"
    /\ items[2].level = "1.0"
    /\ yielded[1][1] = << SECTION, "2.0", "}" >>
    /\ yielded[3][1] = << VSPACE >>

\* a line of out carries the label lb and each of the UIDs
Mentions(out, lb, uids) ==
    \E k \in 1..Len(out) :
        /\ Has(out[k], lb)
        /\ \A j \in 1..Len(uids) : Has(out[k], uids[j])

\* the label and links lines _lines_markdown may yield for this item alone
OwnLabelLinks(item) ==
    { MarkdownFormatLabelLinks(lb, MarkdownFormatLinks(item.parent_items)) :
        lb \in { PARENT_LINKS, CHILD_LINKS, LINKS_LABEL } }

\* C32: _lines_markdown publishes every item that has links without raising
\* an error, whatever PUBLISH_CHILD_LINKS is, and the label and links line it
\* yields for an item is computed from that item only.
C32_LinksPublishedWithoutError ==
    /\ md_error = ""
    /\ \A n \in 1..md_item_count :
           items[n].links # << >>
               => \E k \in 1..Len(md_yielded[n]) :
                      md_yielded[n][k] \in OwnLabelLinks(items[n])

\* C33: with PUBLISH_CHILD_LINKS enabled, an item of LaTeXPublisher.lines
\* that has parent links and child items yields both the "Parent links:"
\* entry with its parent items and the "Child links:" entry with its child
\* items.
C33_ParentAndChildLinksKept ==
    \A n \in 1..item_count :
        ( /\ publish_child_links
          /\ items[n].links # << >>
          /\ items[n].parent_items # << >>
          /\ items[n].child_items # << >> )
            => /\ Mentions(yielded[n], PARENT_LINKS, items[n].parent_items)
               /\ Mentions(yielded[n], CHILD_LINKS, items[n].child_items)

====
